---- MODULE Spec2Model ----
(***************************************************************************)
(* A model of the minimal reverse-mode automatic differentiation engine    *)
(* of src/tmp.py: Node construction, the four operators, memoized          *)
(* Node.eval() and gradients().                                            *)
(*                                                                         *)
(* Nodes live in an arena `heap`; a Node's identity is its index.  Python  *)
(* numbers are modelled as exact rationals <<num, den>> in lowest terms    *)
(* with den > 0 (floating-point rounding is abstracted away); a value of   *)
(* None is the empty tuple.                                                *)
(***************************************************************************)
EXTENDS Integers, Sequences, FiniteSets, TLC

VARIABLES
    heap,       \* every Node constructed so far, in construction order
    refs,       \* the Nodes the caller holds a reference to
    fwdCalls,   \* history: node |-> number of times its op.forward was invoked
    fwdRets,    \* history: node |-> number of times its op.forward returned
    gradLog     \* history: what the last gradients() call did

vars == <<heap, refs, fwdCalls, fwdRets, gradLog>>

----------------------------------------------------------------------------
(* Bounds of the exploration.                                              *)

\* Leaf Nodes that constructors may put in the heap.
MaxLeaves == 2
\* Operator Nodes that operator application may put in the heap.
MaxOps == 2
\* The same two bounds for the runs that build deeper graphs over fewer leaves.
DeepLeaves == 1
DeepOps == 3
\* Nodes in the heap, and inputs of one Node, when Node() is called directly.
MaxRawNodes == 2
MaxRawInputs == 3
\* Longest wrt list handed to gradients().
MaxWrt == 2
\* Longest wrt list in the runs that build deeper graphs.
MaxWrtShort == 1
\* gradients() calls in one run.
MaxGradCalls == 1
\* op.forward invocations per Node (a forward that raises may be retried).
MaxFwdCalls == 2

\* Constructors run while the heap holds fewer Nodes than this.
MaxNodes == 4
\* The same in the runs that interleave eval() calls.
MaxNodesMixed == 3

Limits == [leaves |-> MaxLeaves, ops |-> MaxOps, nodes |-> MaxNodes]
DeepLimits == [leaves |-> DeepLeaves, ops |-> DeepOps, nodes |-> MaxNodes]
MixedLimits == [leaves |-> MaxLeaves, ops |-> MaxOps, nodes |-> MaxNodesMixed]

\* The numbers leaves are constructed with.
LeafValues == {0, 2}
\* The same, for the runs without gradients().
EvalValues == {0, 2, 3}

----------------------------------------------------------------------------
(* Python numbers, as rationals.                                           *)

None == <<>>

Abs(x) == IF x < 0 THEN -x ELSE x

RECURSIVE Gcd(_, _)
Gcd(a, b) == IF b = 0 THEN a ELSE Gcd(b, a % b)

\* n/d in lowest terms with a positive denominator (d # 0).
Rat(n, d) ==
    LET g == Gcd(Abs(n), Abs(d))
        s == IF d < 0 THEN -1 ELSE 1
    IN  <<(s * n) \div g, (s * d) \div g>>

Num(v) == Rat(v, 1)

RatAdd(p, q) == Rat(p[1] * q[2] + q[1] * p[2], p[2] * q[2])
RatSub(p, q) == Rat(p[1] * q[2] - q[1] * p[2], p[2] * q[2])
RatMul(p, q) == Rat(p[1] * q[1], p[2] * q[2])
RatDiv(p, q) == Rat(p[1] * q[2], p[2] * q[1])

----------------------------------------------------------------------------
(* Node and the operators.                                                 *)

NoOp == "None"
OpNames == {"Add", "Sub", "Mul", "Div"}

\* Node.__init__: stores its three arguments, validates nothing.
Node(inputs, op, value) == [inputs |-> inputs, op |-> op, value |-> value]

\* A heap with one more Node; the new Node's identity is Len of the result.
New(h, node) == Append(h, node)

\* addOp(a, b), subOp(a, b), mulOp(a, b), divOp(a, b): Op.__call__.
AddOpCall(h, a, b) == New(h, Node(<<a, b>>, "Add", None))
SubOpCall(h, a, b) == New(h, Node(<<a, b>>, "Sub", None))
\* Faulty variant: building the product drops the left operand's cached value.
MulOpCall_resets(h, a, b) ==
    New([h EXCEPT ![a].value = None], Node(<<a, b>>, "Mul", None))

MulOpCall(h, a, b) == New(h, Node(<<a, b>>, "Mul", None))
DivOpCall(h, a, b) == New(h, Node(<<a, b>>, "Div", None))

Raised(e) == [ok |-> FALSE, val |-> None, err |-> e]
Returned(v) == [ok |-> TRUE, val |-> v, err |-> ""]

\* AddOp.forward .. DivOp.forward on the list of input values.  inputs[0]
\* and inputs[1] raise IndexError on a shorter list; / raises
\* ZeroDivisionError on a zero divisor.
AddForward(inputs) ==
    IF Len(inputs) < 2 THEN Raised("IndexError")
    ELSE Returned(RatAdd(inputs[1], inputs[2]))

\* Faulty variant: the operands taken in the wrong order.
SubForward_swapped(inputs) ==
    IF Len(inputs) < 2 THEN Raised("IndexError")
    ELSE Returned(RatSub(inputs[2], inputs[1]))

SubForward(inputs) ==
    IF Len(inputs) < 2 THEN Raised("IndexError")
    ELSE Returned(RatSub(inputs[1], inputs[2]))

MulForward(inputs) ==
    IF Len(inputs) < 2 THEN Raised("IndexError")
    ELSE Returned(RatMul(inputs[1], inputs[2]))

DivForward(inputs) ==
    IF Len(inputs) < 2 THEN Raised("IndexError")
    ELSE IF inputs[2][1] = 0 THEN Raised("ZeroDivisionError")
    ELSE Returned(RatDiv(inputs[1], inputs[2]))

\* self.op.forward(input_values): dispatch on the operator.
Forward(op, inputs) ==
    CASE op = "Add" -> AddForward(inputs)
      [] op = "Sub" -> SubForward(inputs)
      [] op = "Mul" -> MulForward(inputs)
      [] op = "Div" -> DivForward(inputs)

----------------------------------------------------------------------------
(* Node.eval().  The evaluation state threads the heap and the two         *)
(* forward counters through the recursion.                                 *)

Count(f, n) == IF n \in DOMAIN f THEN f[n] ELSE 0
Bump(f, n) == [m \in DOMAIN f \cup {n} |-> IF m = n THEN Count(f, n) + 1 ELSE f[m]]

RECURSIVE eval(_, _), EvalInputs(_, _, _, _), Compute(_, _)

\* [input_node.eval() for input_node in self.inputs]: left to right, the
\* first exception ends the comprehension.
EvalInputs(st, inputs, i, vals) ==
    IF i > Len(inputs) THEN [st |-> st, ok |-> TRUE, vals |-> vals, err |-> ""]
    ELSE LET r == eval(st, inputs[i])
         IN  IF r.ok THEN EvalInputs(r.st, inputs, i + 1, Append(vals, r.val))
             ELSE [st |-> r.st, ok |-> FALSE, vals |-> vals, err |-> r.err]

\* The rest of Node.eval() once the cached value was found to be None.
Compute(st, n) ==
    LET self == st.heap[n]
        r == EvalInputs(st, self.inputs, 1, <<>>)
    IN  IF ~r.ok
        THEN [st |-> r.st, ok |-> FALSE, val |-> None, err |-> r.err]
        ELSE IF self.op = NoOp
        THEN [st |-> r.st, ok |-> FALSE, val |-> None, err |-> "ValueError"]
        ELSE LET called == [r.st EXCEPT !.fwdCalls = Bump(@, n)]
                 f == Forward(self.op, r.vals)
             IN  IF ~f.ok
                 THEN [st |-> called, ok |-> FALSE, val |-> None, err |-> f.err]
                 ELSE [st |-> [called EXCEPT !.heap[n].value = f.val,
                                             !.fwdRets = Bump(@, n)],
                       ok |-> TRUE, val |-> f.val, err |-> ""]

\* Faulty variant: the cached value is used for leaves only.
eval_recompute(st, n) ==
    IF st.heap[n].value # None /\ st.heap[n].op = NoOp
    THEN [st |-> st, ok |-> TRUE, val |-> st.heap[n].value, err |-> ""]
    ELSE Compute(st, n)

\* Node.eval(self) with self = n.
eval(st, n) ==
    IF st.heap[n].value # None
    THEN [st |-> st, ok |-> TRUE, val |-> st.heap[n].value, err |-> ""]
    ELSE Compute(st, n)

EvalState == [heap |-> heap, fwdCalls |-> fwdCalls, fwdRets |-> fwdRets]

----------------------------------------------------------------------------
(* The backward rules.  Each returns the heap with the Nodes it built and  *)
(* the list of gradient contributions, one per input.                      *)

Last(h) == Len(h)

\* AddOp.backward: [out_grad, out_grad]
AddBackward(h, out_grad, node) == [heap |-> h, in_grads |-> <<out_grad, out_grad>>]

\* SubOp.backward: [out_grad, Node([], None, value=-1) * out_grad]
SubBackward(h, out_grad, node) ==
    LET h1 == New(h, Node(<<>>, NoOp, Num(-1)))
        h2 == MulOpCall(h1, Last(h1), out_grad)
    IN  [heap |-> h2, in_grads |-> <<out_grad, Last(h2)>>]

\* MulOp.backward: [node.inputs[1] * out_grad, node.inputs[0] * out_grad]
MulBackward(h, out_grad, node) ==
    LET h1 == MulOpCall(h, h[node].inputs[2], out_grad)
        h2 == MulOpCall(h1, h[node].inputs[1], out_grad)
    IN  [heap |-> h2, in_grads |-> <<Last(h1), Last(h2)>>]

\* DivOp.backward:
\*   [out_grad * (Node([], None, value=1) / node.inputs[1]),
\*    out_grad * (Node([], None, value=-1) * node.inputs[0]
\*                / (node.inputs[1] * node.inputs[1]))]
DivBackward(h, out_grad, node) ==
    LET a  == h[node].inputs[1]
        b  == h[node].inputs[2]
        h1 == New(h, Node(<<>>, NoOp, Num(1)))
        h2 == DivOpCall(h1, Last(h1), b)
        h3 == MulOpCall(h2, out_grad, Last(h2))
        h4 == New(h3, Node(<<>>, NoOp, Num(-1)))
        h5 == MulOpCall(h4, Last(h4), a)
        h6 == MulOpCall(h5, b, b)
        h7 == DivOpCall(h6, Last(h5), Last(h6))
        h8 == MulOpCall(h7, out_grad, Last(h7))
    IN  [heap |-> h8, in_grads |-> <<Last(h3), Last(h8)>>]

\* node.op.backward(out_grad, node): dispatch on the operator.
Backward(h, out_grad, node) ==
    CASE h[node].op = "Add" -> AddBackward(h, out_grad, node)
      [] h[node].op = "Sub" -> SubBackward(h, out_grad, node)
      [] h[node].op = "Mul" -> MulBackward(h, out_grad, node)
      [] h[node].op = "Div" -> DivBackward(h, out_grad, node)

----------------------------------------------------------------------------
(* gradients(output_node, input_nodes).                                    *)

RECURSIVE build_topo(_, _, _), BuildTopoInputs(_, _, _, _)

\* Faulty variant: no check of the visited set.
build_topo_revisits(h, st, node) ==
    LET seen == [st EXCEPT !.visited = @ \cup {node}]
        done == BuildTopoInputs(h, seen, h[node].inputs, 1)
    IN  [done EXCEPT !.topo_order = Append(@, node)]

\* for inp in node.inputs: build_topo(inp)
BuildTopoInputs(h, st, inputs, i) ==
    IF i > Len(inputs) THEN st
    ELSE BuildTopoInputs(h, build_topo(h, st, inputs[i]), inputs, i + 1)

\* build_topo(node); st holds the closure's visited set and topo_order list.
build_topo(h, st, node) ==
    IF node \in st.visited THEN st
    ELSE LET seen == [st EXCEPT !.visited = @ \cup {node}]
             done == BuildTopoInputs(h, seen, h[node].inputs, 1)
         IN  [done EXCEPT !.topo_order = Append(@, node)]

Event(kind, node, inp, grad) == [kind |-> kind, node |-> node, inp |-> inp, grad |-> grad]

Put(f, k, v) == [x \in DOMAIN f \cup {k} |-> IF x = k THEN v ELSE f[x]]

Min(a, b) == IF a < b THEN a ELSE b

\* Faulty variant: a later contribution replaces the earlier one.
Accumulate_overwrites(gs, node, inp, in_grad) ==
    [gs EXCEPT !.grads = Put(@, inp, in_grad),
               !.events = Append(@, Event("insert", node, inp, in_grad))]

\* if inp in grads: grads[inp] = grads[inp] + in_grad
\* else:            grads[inp] = in_grad
Accumulate(gs, node, inp, in_grad) ==
    IF inp \in DOMAIN gs.grads
    THEN LET h1 == AddOpCall(gs.heap, gs.grads[inp], in_grad)
         IN  [gs EXCEPT !.heap = h1,
                        !.grads = Put(@, inp, Last(h1)),
                        !.events = Append(@, Event("accumulate", node, inp, in_grad))]
    ELSE [gs EXCEPT !.grads = Put(@, inp, in_grad),
                    !.events = Append(@, Event("insert", node, inp, in_grad))]

RECURSIVE ZipLoop(_, _, _, _)
\* for inp, in_grad in zip(node.inputs, in_grads)
ZipLoop(gs, node, in_grads, k) ==
    IF k > Min(Len(gs.heap[node].inputs), Len(in_grads)) THEN gs
    ELSE ZipLoop(Accumulate(gs, node, gs.heap[node].inputs[k], in_grads[k]),
                 node, in_grads, k + 1)

\* The body of the reverse walk for one node of topo_order.
Visit(gs, node) ==
    IF gs.heap[node].op = NoOp THEN gs
    ELSE IF node \notin DOMAIN gs.grads
    THEN [gs EXCEPT !.err = "KeyError",
                    !.events = Append(@, Event("KeyError", node, 0, 0))]
    ELSE LET out_grad == gs.grads[node]
             b == Backward(gs.heap, out_grad, node)
             gs1 == [gs EXCEPT !.heap = b.heap,
                               !.events = Append(@, Event("backward", node, 0, out_grad))]
         IN  ZipLoop(gs1, node, b.in_grads, 1)

\* Faulty variant: the walk takes topo_order front to back.
WalkOrder_forward(topo_order) == topo_order

\* The positions of topo_order in the order the walk takes them.
WalkOrder(topo_order) == [i \in 1..Len(topo_order) |-> topo_order[Len(topo_order) + 1 - i]]

RECURSIVE Walk(_, _, _)
\* for node in reversed(topo_order)
Walk(gs, order, i) ==
    IF i > Len(order) \/ gs.err # "" THEN gs
    ELSE Walk(Visit(gs, order[i]), order, i + 1)

\* grads.get(inp, Node([], None, value=0)): the default is constructed
\* before the lookup, whether or not it is used.
GradsGet(h, grads, inp) ==
    LET h1 == New(h, Node(<<>>, NoOp, Num(0)))
    IN  [heap |-> h1, node |-> IF inp \in DOMAIN grads THEN grads[inp] ELSE Last(h1)]

RECURSIVE Collect(_, _, _, _, _), Collect_skips(_, _, _, _, _)
\* Faulty variant: an input without a gradient is left out of the result.
Collect_skips(h, grads, input_nodes, i, acc) ==
    IF i > Len(input_nodes) THEN [heap |-> h, result |-> acc]
    ELSE IF input_nodes[i] \notin DOMAIN grads
    THEN Collect_skips(h, grads, input_nodes, i + 1, acc)
    ELSE Collect_skips(h, grads, input_nodes, i + 1, Append(acc, grads[input_nodes[i]]))

\* [grads.get(inp, Node([], None, value=0)) for inp in input_nodes]
Collect(h, grads, input_nodes, i, acc) ==
    IF i > Len(input_nodes) THEN [heap |-> h, result |-> acc]
    ELSE LET g == GradsGet(h, grads, input_nodes[i])
         IN  Collect(g.heap, grads, input_nodes, i + 1, Append(acc, g.node))

\* Faulty variant: the seed is zero.
Seed_zero(h, output_node) ==
    LET h1 == New(h, Node(<<>>, NoOp, Num(0)))
    IN  [heap |-> h1, grads |-> Put(<<>>, output_node, Last(h1)), events |-> <<>>, err |-> ""]

\* grads = {output_node: Node([], None, value=1)}
Seed(h, output_node) ==
    LET h1 == New(h, Node(<<>>, NoOp, Num(1)))
    IN  [heap |-> h1, grads |-> Put(<<>>, output_node, Last(h1)), events |-> <<>>, err |-> ""]

\* gradients(), up to its return statement: the seed, build_topo(output_node)
\* and the reverse walk.
Propagate(h, output_node) ==
    LET topo == build_topo(h, [visited |-> {}, topo_order |-> <<>>], output_node)
        gs   == Walk(Seed(h, output_node), WalkOrder(topo.topo_order), 1)
    IN  [heap |-> gs.heap, topo_order |-> topo.topo_order, events |-> gs.events,
         grads |-> gs.grads, err |-> gs.err]

\* gradients()'s return statement, after the walk left gs; an exception
\* raised by the walk returns nothing.
Return(gs, input_nodes) ==
    IF gs.err = "" THEN Collect(gs.heap, gs.grads, input_nodes, 1, <<>>)
    ELSE [heap |-> gs.heap, result |-> <<>>]

----------------------------------------------------------------------------
(* The state machine.                                                      *)

NoGrad == [calls |-> 0, base |-> 0, top |-> 0, output |-> 0, wrt |-> <<>>, result |-> <<>>,
           topo_order |-> <<>>, events |-> <<>>, grads |-> <<>>, err |-> ""]

Init ==
    /\ heap = <<>>
    /\ refs = {}
    /\ fwdCalls = <<>>
    /\ fwdRets = <<>>
    /\ gradLog = NoGrad

Leaves(h) == {n \in DOMAIN h : h[n].op = NoOp}
OpNodes(h) == {n \in DOMAIN h : h[n].op # NoOp}

\* Node([], None, value=v)
Leaf(v, lim) ==
    /\ Len(heap) < lim.nodes
    /\ Cardinality(Leaves(heap)) < lim.leaves
    /\ heap' = New(heap, Node(<<>>, NoOp, Num(v)))
    /\ refs' = refs \cup {Len(heap) + 1}
    /\ UNCHANGED <<fwdCalls, fwdRets, gradLog>>

\* a + b, a - b, a * b, a / b: Node.__add__ .. Node.__truediv__
Apply(op, a, b, lim) ==
    /\ Len(heap) < lim.nodes
    /\ Cardinality(OpNodes(heap)) < lim.ops
    /\ heap' = CASE op = "Add" -> AddOpCall(heap, a, b)
                 [] op = "Sub" -> SubOpCall(heap, a, b)
                 [] op = "Mul" -> MulOpCall(heap, a, b)
                 [] op = "Div" -> DivOpCall(heap, a, b)
    /\ refs' = refs \cup {Len(heap) + 1}
    /\ UNCHANGED <<fwdCalls, fwdRets, gradLog>>

\* Node(inputs, op, value) called directly, with any arguments.
RawNode(inputs, op, value) ==
    /\ Len(heap) < MaxRawNodes
    /\ heap' = New(heap, Node(inputs, op, value))
    /\ refs' = refs \cup {Len(heap) + 1}
    /\ UNCHANGED <<fwdCalls, fwdRets, gradLog>>

\* t.eval(); an exception leaves what was memoized before it was raised.
Eval(t) ==
    LET r == eval(EvalState, t)
    IN  /\ \A n \in DOMAIN r.st.fwdCalls : r.st.fwdCalls[n] <= MaxFwdCalls
        /\ heap' = r.st.heap
        /\ fwdCalls' = r.st.fwdCalls
        /\ fwdRets' = r.st.fwdRets
        /\ UNCHANGED <<refs, gradLog>>

Range(s) == {s[i] : i \in DOMAIN s}

WrtLists(maxLen) == UNION {[1..k -> refs] : k \in 0..maxLen}

\* gradients(output, wrt), gs being what its walk from output computes;
\* the caller keeps the returned Nodes.
Gradients(output, wrt, gs) ==
    /\ gradLog.calls < MaxGradCalls
    /\ LET out == Return(gs, wrt)
       IN  /\ heap' = out.heap
           /\ refs' = refs \cup Range(out.result)
           /\ gradLog' = [calls |-> gradLog.calls + 1, base |-> Len(heap),
                          top |-> Len(out.heap),
                          output |-> output, wrt |-> wrt, result |-> out.result,
                          topo_order |-> gs.topo_order, events |-> gs.events,
                          grads |-> gs.grads, err |-> gs.err]
    /\ UNCHANGED <<fwdCalls, fwdRets>>

GradientsCall(maxLen) ==
    \E output \in refs :
        LET gs == Propagate(heap, output)
        IN  \E wrt \in WrtLists(maxLen) : Gradients(output, wrt, gs)

\* Every operation, in any order.
Next ==
    \/ \E v \in LeafValues : Leaf(v, MixedLimits)
    \/ \E op \in OpNames, a \in refs, b \in refs : Apply(op, a, b, MixedLimits)
    \/ \E t \in refs : Eval(t)
    \/ GradientsCall(MaxWrt)

Spec == Init /\ [][Next]_vars

\* Graph construction and eval(), over more leaf values.
NextEval ==
    \/ \E v \in EvalValues : Leaf(v, MixedLimits)
    \/ \E op \in OpNames, a \in refs, b \in refs : Apply(op, a, b, MixedLimits)
    \/ \E t \in refs : Eval(t)

SpecEval == Init /\ [][NextEval]_vars

\* Graph construction and gradients(), with the longer wrt lists.
NextGrad ==
    \/ \E v \in LeafValues : Leaf(v, Limits)
    \/ \E op \in OpNames, a \in refs, b \in refs : Apply(op, a, b, Limits)
    \/ GradientsCall(MaxWrt)

SpecGrad == Init /\ [][NextGrad]_vars

\* Graph construction and gradients(), with the deeper graphs.
NextDeep ==
    \/ \E v \in LeafValues : Leaf(v, DeepLimits)
    \/ \E op \in OpNames, a \in refs, b \in refs : Apply(op, a, b, DeepLimits)
    \/ GradientsCall(MaxWrtShort)

SpecDeep == Init /\ [][NextDeep]_vars

RawInputs == UNION {[1..k -> refs] : k \in 0..MaxRawInputs}
RawValues == {None} \cup {Num(v) : v \in LeafValues}

\* Node() called directly, and eval().
NextRaw ==
    \/ \E inputs \in RawInputs, op \in OpNames \cup {NoOp}, value \in RawValues :
           RawNode(inputs, op, value)
    \/ \E t \in refs : Eval(t)

SpecRaw == Init /\ [][NextRaw]_vars

----------------------------------------------------------------------------
(* Notions the properties are stated with.                                 *)

RECURSIVE Closure(_, _, _)
Closure(h, frontier, seen) ==
    IF frontier = {} THEN seen
    ELSE LET n == CHOOSE x \in frontier : TRUE
             more == Range(h[n].inputs) \ (seen \cup {n})
         IN  Closure(h, (frontier \ {n}) \cup more, seen \cup {n})

\* The Nodes reachable from n through inputs edges, n included.
Reachable(h, n) == Closure(h, {n}, {})

IsLeaf(h, n) == h[n].op = NoOp /\ h[n].inputs = <<>> /\ h[n].value # None
IsIntLeaf(h, n) == IsLeaf(h, n) /\ h[n].value[2] = 1

\* v is the rational x / y, in lowest terms (y # 0).
IsQuotient(v, x, y) ==
    /\ v[2] > 0
    /\ v[1] * y = x * v[2]
    /\ \A k \in 2..v[2] : ~(v[1] % k = 0 /\ v[2] % k = 0)

\* What eval() must give for an operator applied to integers x and y.
Expected(op, x, y, r) ==
    CASE op = "Add" -> r.ok /\ r.val = <<x + y, 1>>
      [] op = "Sub" -> r.ok /\ r.val = <<x - y, 1>>
      [] op = "Mul" -> r.ok /\ r.val = <<x * y, 1>>
      [] op = "Div" -> IF y = 0 THEN ~r.ok /\ r.err = "ZeroDivisionError"
                       ELSE r.ok /\ IsQuotient(r.val, x, y)

BinaryOverLeaves(n) ==
    /\ heap[n].op # NoOp
    /\ Len(heap[n].inputs) = 2
    /\ IsIntLeaf(heap, heap[n].inputs[1])
    /\ IsIntLeaf(heap, heap[n].inputs[2])

----------------------------------------------------------------------------
(* C2. Forward evaluation: for leaves a = Leaf(x) and b = Leaf(y),         *)
(* (a+b).eval() is x+y, (a-b).eval() is x-y, (a*b).eval() is x*y and, for  *)
(* y # 0, (a/b).eval() is x/y: the left operand is the first input value.  *)
(* The value a Node holds after eval() is that same number.                *)
C2_ForwardEvaluation ==
    \A n \in DOMAIN heap :
        BinaryOverLeaves(n) =>
            LET x == heap[heap[n].inputs[1]].value[1]
                y == heap[heap[n].inputs[2]].value[1]
                r == eval(EvalState, n)
            IN  /\ Expected(heap[n].op, x, y, r)
                /\ r.ok => r.st.heap[n].value = r.val

\* 2 / 3 has been evaluated: two different leaves, the left one the dividend.
C2_Witness ==
    \E n \in DOMAIN heap :
        /\ BinaryOverLeaves(n)
        /\ heap[n].op = "Div"
        /\ heap[heap[n].inputs[1]].value = <<2, 1>>
        /\ heap[heap[n].inputs[2]].value = <<3, 1>>
        /\ heap[n].value = <<2, 3>>

----------------------------------------------------------------------------
(* C5, as claimed. Memoization: after any sequence of eval() calls each    *)
(* non-leaf Node's forward rule has been invoked at most once.             *)
C5_ForwardInvokedAtMostOnce ==
    \A n \in DOMAIN fwdCalls : fwdCalls[n] <= 1

(* C5, amended. Each non-leaf Node's forward rule has returned a value at  *)
(* most once (an invocation that raises leaves the value unset, and the    *)
(* next eval() invokes it again); a value once computed never changes and  *)
(* no forward rule of that Node is invoked after it; eval() of a Node      *)
(* whose value is set returns that value, invokes nothing, changes nothing.*)
C5_Memoization ==
    [][\A n \in DOMAIN heap :
          /\ Count(fwdRets', n) <= 1
          /\ heap[n].value # None =>
                /\ heap'[n].value = heap[n].value
                /\ Count(fwdCalls', n) = Count(fwdCalls, n)
                /\ eval(EvalState, n) =
                      [st |-> EvalState, ok |-> TRUE, val |-> heap[n].value, err |-> ""]
          /\ (heap[n].value = None /\ heap'[n].value # None) =>
                /\ Count(fwdRets', n) = 1
                /\ eval(EvalState', n).st = EvalState'
      ]_vars

\* An operator Node was evaluated, and another one's forward raised twice.
C5_Witness ==
    /\ \E n \in DOMAIN heap :
           heap[n].op # NoOp /\ heap[n].value # None /\ Count(fwdCalls, n) = 1
    /\ \E n \in DOMAIN heap :
           heap[n].value = None /\ Count(fwdCalls, n) = 2 /\ Count(fwdRets, n) = 0

----------------------------------------------------------------------------
\* A step that constructs Nodes: a leaf, an operator application, gradients().
Constructs ==
    \/ \E v \in LeafValues : Leaf(v, MixedLimits)
    \/ \E op \in OpNames, a \in refs, b \in refs : Apply(op, a, b, MixedLimits)
    \/ GradientsCall(MaxWrt)

(* C8. Frame: no step changes the inputs or the op of an existing Node; a  *)
(* value changes only from unset to set, and only in a step t.eval() with  *)
(* the Node reachable from t; constructing a leaf, applying an operator    *)
(* and gradients() change no field of any existing Node.                   *)
C8_Frame ==
    [][/\ \A n \in DOMAIN heap :
             /\ n \in DOMAIN heap'
             /\ heap'[n].inputs = heap[n].inputs
             /\ heap'[n].op = heap[n].op
             /\ heap'[n].value # heap[n].value =>
                   /\ heap[n].value = None
                   /\ \E t \in refs : Eval(t) /\ n \in Reachable(heap, t)
       /\ \/ \A n \in DOMAIN heap : heap'[n] = heap[n]
          \/ Len(heap') = Len(heap)      \* every constructing step adds a Node
          \/ ~Constructs
      ]_vars

\* eval() of a Node gradients() returned has memoized a value in an operator
\* Node that existed before the call.
C8_Witness ==
    /\ gradLog.calls > 0
    /\ \E r \in Range(gradLog.result), n \in 1..gradLog.base :
           /\ heap[r].op # NoOp /\ heap[r].value # None
           /\ heap[n].op # NoOp /\ heap[n].value # None
           /\ n \in Reachable(heap, r)

----------------------------------------------------------------------------
(* The derivative gradients() is meant to build, computed on its own: the  *)
(* value of a Node from its definition, the partial derivative of an       *)
(* operator in one operand, and the sum over all paths.  None where a      *)
(* division by zero leaves the number undefined.                           *)

Lift1(f(_), p) == IF p = None THEN None ELSE f(p)
Lift2(f(_, _), p, q) == IF p = None \/ q = None THEN None ELSE f(p, q)
SafeDiv(p, q) == IF q[1] = 0 THEN None ELSE RatDiv(p, q)
Neg(p) == <<-p[1], p[2]>>

RECURSIVE TrueValue(_, _)
TrueValue(h, n) ==
    IF h[n].op = NoOp THEN h[n].value
    ELSE LET x == TrueValue(h, h[n].inputs[1])
             y == TrueValue(h, h[n].inputs[2])
         IN  CASE h[n].op = "Add" -> Lift2(RatAdd, x, y)
               [] h[n].op = "Sub" -> Lift2(RatSub, x, y)
               [] h[n].op = "Mul" -> Lift2(RatMul, x, y)
               [] h[n].op = "Div" -> Lift2(SafeDiv, x, y)

\* d c / d (k-th operand of c)
Partial(h, c, k) ==
    LET x == TrueValue(h, h[c].inputs[1])
        y == TrueValue(h, h[c].inputs[2])
    IN  CASE h[c].op = "Add" -> Num(1)
          [] h[c].op = "Sub" -> IF k = 1 THEN Num(1) ELSE Num(-1)
          [] h[c].op = "Mul" -> IF k = 1 THEN y ELSE x
          [] h[c].op = "Div" ->
                IF k = 1 THEN Lift2(SafeDiv, Num(1), y)
                ELSE Lift1(Neg, Lift2(SafeDiv, x, Lift2(RatMul, y, y)))

\* The places <<c, k>> where s is the k-th input of a consumer c that the
\* output depends on.
Uses(h, output, s) ==
    {u \in Reachable(h, output) \X {1, 2} :
        h[u[1]].op # NoOp /\ h[u[1]].inputs[u[2]] = s}

RECURSIVE Deriv(_, _, _), SumPaths(_, _, _)
\* d output / d s
Deriv(h, output, s) ==
    IF s = output THEN Num(1) ELSE SumPaths(h, output, Uses(h, output, s))

SumPaths(h, output, uses) ==
    IF uses = {} THEN Num(0)
    ELSE LET u == CHOOSE x \in uses : TRUE
         IN  Lift2(RatAdd,
                   Lift2(RatMul, Deriv(h, output, u[1]), Partial(h, u[1], u[2])),
                   SumPaths(h, output, uses \ {u}))

\* The heap as the last gradients() call found it.
Before == SubSeq(heap, 1, gradLog.base)
Called == gradLog.calls > 0 /\ gradLog.err = ""

----------------------------------------------------------------------------
(* C1. Shared-subgraph accumulation: when a Node s is an input of two      *)
(* consumers the output depends on, or twice of one, the Node gradients()  *)
(* returns for s evaluates to the sum of the contributions along all those *)
(* paths, that is to d output / d s; for d = (a+b)*(a+b) the gradient in a *)
(* evaluates to 2*(a+b).                                                   *)
C1_SharedAccumulation ==
    Called =>
        \A i \in DOMAIN gradLog.wrt :
            LET s == gradLog.wrt[i]
                r == eval(EvalState, gradLog.result[i])
            IN  (Cardinality(Uses(Before, gradLog.output, s)) >= 2 /\ r.ok) =>
                    r.val = Deriv(Before, gradLog.output, s)

\* gradients(d, [a]) for d = (a+b)*(a+b) over two leaves a # b, evaluating
\* to 2*(a+b).
C1_Witness ==
    /\ Called
    /\ Len(gradLog.wrt) = 1
    /\ LET d == gradLog.output
           a == gradLog.wrt[1]
       IN  /\ heap[d].op = "Mul"
           /\ heap[d].inputs[1] = heap[d].inputs[2]
           /\ LET sum == heap[d].inputs[1]
              IN  /\ heap[sum].op = "Add"
                  /\ heap[sum].inputs[1] = a
                  /\ heap[sum].inputs[2] # a
                  /\ IsIntLeaf(heap, a)
                  /\ IsIntLeaf(heap, heap[sum].inputs[2])
                  /\ heap[a].value[1] + heap[heap[sum].inputs[2]].value[1] # 0
                  /\ eval(EvalState, gradLog.result[1]).val =
                        <<2 * (heap[a].value[1] + heap[heap[sum].inputs[2]].value[1]), 1>>

----------------------------------------------------------------------------
(* C4. Self-gradient: gradients(output, [.., output, ..]) returns for the  *)
(* output the seed, a leaf Node of value 1 made by this call, whether the  *)
(* output is a leaf or an operator Node; the walk neither replaces the     *)
(* seed nor accumulates into it.                                           *)
C4_SelfGradient ==
    Called =>
        /\ \A i \in DOMAIN gradLog.wrt :
              gradLog.wrt[i] = gradLog.output =>
                  /\ gradLog.result[i] = gradLog.base + 1
                  /\ heap[gradLog.result[i]] = Node(<<>>, NoOp, <<1, 1>>)
                  /\ eval(EvalState, gradLog.result[i]).val = <<1, 1>>
        /\ gradLog.grads[gradLog.output] = gradLog.base + 1
        /\ \A e \in DOMAIN gradLog.events : gradLog.events[e].inp # gradLog.output

\* The output was an operator Node with a shared operand, asked for together
\* with another Node.
C4_Witness ==
    /\ Called
    /\ heap[gradLog.output].op # NoOp
    /\ Len(gradLog.wrt) = 2
    /\ gradLog.wrt[2] = gradLog.output
    /\ gradLog.wrt[1] # gradLog.output
    /\ \E e \in DOMAIN gradLog.events : gradLog.events[e].kind = "accumulate"

----------------------------------------------------------------------------
(* C7. Unreachable input: the result has one entry per wrt entry, in the   *)
(* caller's order; at the position of a Node the output does not depend on *)
(* it holds a fresh leaf Node of value 0, with no op and no inputs, that   *)
(* nothing else refers to when the call returns; at the position of a Node *)
(* it depends on, that Node's accumulated gradient.                        *)
C7_UnreachableIsZero ==
    Called =>
        /\ Len(gradLog.result) = Len(gradLog.wrt)
        /\ \A i \in DOMAIN gradLog.wrt :
              IF gradLog.wrt[i] \in Reachable(Before, gradLog.output)
              THEN gradLog.result[i] = gradLog.grads[gradLog.wrt[i]]
              ELSE /\ gradLog.result[i] > gradLog.base
                   /\ heap[gradLog.result[i]] = Node(<<>>, NoOp, <<0, 1>>)
                   /\ \A j \in DOMAIN gradLog.result :
                         j # i => gradLog.result[j] # gradLog.result[i]
                   /\ \A n \in 1..gradLog.top :
                         gradLog.result[i] \notin Range(heap[n].inputs)

\* A Node the output does not depend on was asked for first, one it depends
\* on second.
C7_Witness ==
    /\ Called
    /\ heap[gradLog.output].op # NoOp
    /\ Len(gradLog.wrt) = 2
    /\ gradLog.wrt[1] \notin Reachable(Before, gradLog.output)
    /\ gradLog.wrt[2] \in Reachable(Before, gradLog.output) \ {gradLog.output}
    /\ Len(gradLog.result) = 2

----------------------------------------------------------------------------
(* C10. Topological order: build_topo(output) leaves in topo_order exactly *)
(* the Nodes the output depends on, each once however many times it is     *)
(* referred to, every Node after all of its inputs, the output last.       *)
C10_TopologicalOrder ==
    gradLog.calls > 0 =>
        LET t == gradLog.topo_order
            R == Reachable(Before, gradLog.output)
        IN  /\ Range(t) = R
            /\ Len(t) = Cardinality(R)
            /\ t[Len(t)] = gradLog.output
            /\ \A i \in DOMAIN t :
                  \A x \in Range(heap[t[i]].inputs) : \E j \in 1..(i - 1) : t[j] = x

Consumers(n) == {u[1] : u \in Uses(Before, gradLog.output, n)}

\* The output depends on an operator Node through two different consumers,
\* and on a Node that is both operands of one consumer.
C10_Witness ==
    /\ gradLog.calls > 0
    /\ \E n \in DOMAIN Before : heap[n].op # NoOp /\ Cardinality(Consumers(n)) = 2
    /\ \E c \in Reachable(Before, gradLog.output) :
           heap[c].op # NoOp /\ heap[c].inputs[1] = heap[c].inputs[2]

----------------------------------------------------------------------------
\* Where the walk invoked n's backward rule, and where it contributed to n's
\* gradient.
BackwardAt(n) ==
    {i \in DOMAIN gradLog.events :
        gradLog.events[i].kind = "backward" /\ gradLog.events[i].node = n}

ContributionsTo(n) ==
    {i \in DOMAIN gradLog.events :
        gradLog.events[i].kind \in {"insert", "accumulate"} /\ gradLog.events[i].inp = n}

(* C9. Reverse-walk ordering: gradients() raises no KeyError; the backward *)
(* rule of every operator Node the output depends on is invoked exactly    *)
(* once, and of no other Node; when it is invoked every consumer of the    *)
(* Node has had its own backward rule invoked and has contributed once per *)
(* use to the Node's gradient, and no contribution follows: the gradient   *)
(* the rule consumed is the Node's final one.                              *)
C9_ReverseWalkOrdering ==
    gradLog.calls > 0 =>
        LET R == Reachable(Before, gradLog.output)
            ev == gradLog.events
        IN  /\ gradLog.err = ""
            /\ \A i \in DOMAIN ev :
                  ev[i].kind = "backward" => ev[i].node \in R /\ heap[ev[i].node].op # NoOp
            /\ \A n \in R :
                  /\ Cardinality(ContributionsTo(n)) =
                        Cardinality(Uses(Before, gradLog.output, n))
                  /\ heap[n].op # NoOp =>
                        /\ Cardinality(BackwardAt(n)) = 1
                        /\ \A i \in BackwardAt(n) :
                              /\ \A j \in ContributionsTo(n) : j < i
                              /\ \A u \in Uses(Before, gradLog.output, n) :
                                    /\ \E j \in BackwardAt(u[1]) : j < i
                                    /\ \E j \in ContributionsTo(n) :
                                          ev[j].node = u[1] /\ j < i
                              /\ ev[i].grad = gradLog.grads[n]

\* An operator Node with two different consumers had its backward rule
\* invoked after both of theirs.
C9_Witness ==
    /\ Called
    /\ \E n \in DOMAIN Before :
           /\ heap[n].op # NoOp
           /\ Cardinality(Consumers(n)) = 2
           /\ BackwardAt(n) # {}

----------------------------------------------------------------------------
(* C3, as claimed. Arity: every Node with an op has exactly as many inputs *)
(* as its operator's arity, 2; a Node with another number of inputs is     *)
(* refused when it is constructed.                                         *)
C3_ArityInvariant ==
    \A n \in DOMAIN heap : heap[n].op # NoOp => Len(heap[n].inputs) = 2

----------------------------------------------------------------------------
(* C6, as claimed. Leaf invariant: every Node without an op has its value  *)
(* set; a Node without op and without value is refused when it is          *)
(* constructed.                                                            *)
C6_LeafInvariant ==
    \A n \in DOMAIN heap : heap[n].op = NoOp => heap[n].value # None

====
